---- MODULE Spec2Model ----
(***************************************************************************)
(* Lab-2.cpp: bootstrap of an OpenGL 4.5 context with GLFW and GLEW, a     *)
(* debug log file, and the frame loop.  The program is single-threaded;    *)
(* pc is the position of main (or of the callback GLFW is running).        *)
(* The windowing library, the extension loader, the GL driver and the      *)
(* file system are the environment: their results are chosen with \E.      *)
(***************************************************************************)
EXTENDS Integers, Sequences, FiniteSets, TLC

(* ------------------------------ bounds --------------------------------- *)
MaxIncidents == 2       \* failed opens of the log file plus events dispatched
                        \* by glfwPollEvents, in one run
MaxExt == 1             \* largest GL_NUM_EXTENSIONS the driver reports
MaxFrames == 2          \* frame-loop iterations that may start

(* ---------------------------- constants -------------------------------- *)
EXIT_SUCCESS == 0
EXIT_FAILURE == 1
Running == 0 - 1        \* exitStatus while the process has not ended

NL == "\n"
SP == " "

(* Text is a sequence of tokens; NL is the newline character, SP the space *)
(* character, any other token a run of characters without a newline.       *)
RECURSIVE Concat(_)
Concat(ss) == IF ss = <<>> THEN <<>> ELSE Head(ss) \o Concat(Tail(ss))

(* Measures of a text used by the properties below: its number of         *)
(* newlines, the prefix order, and its lines (the runs of tokens each      *)
(* ended by NL).                                                           *)
CountNL(text) == Cardinality({k \in 1..Len(text) : text[k] = NL})

IsPrefix(s, t) == Len(s) <= Len(t) /\ SubSeq(t, 1, Len(s)) = s

RECURSIVE Lines(_)
Lines(text) ==
  IF \A k \in 1..Len(text) : text[k] # NL THEN <<>>
  ELSE LET n == CHOOSE k \in 1..Len(text) :
                  text[k] = NL /\ \A m \in 1..(k - 1) : text[m] # NL
       IN  <<SubSeq(text, 1, n - 1)>> \o Lines(SubSeq(text, n + 1, Len(text)))

VARIABLES
  pc,            \* position of the program
  logFile,       \* content of gl-debug-log.txt
  logOpen,       \* TRUE while an ofstream on the log file is open
  cerr,          \* number of error lines written to standard error
  logCount,      \* number of calls made to log_to_debug_file
  logArgs,       \* arguments of the latest log_to_debug_file call
  logRet,        \* its return value (FALSE before the first call)
  createLogRet,  \* return value of create_log_file (FALSE before it)
  calls,         \* the windowing / loader / GL calls made, in order
  i,             \* loop index of query_gl_context
  maxExtensions, \* GL_NUM_EXTENSIONS as read by query_gl_context
  shouldClose,   \* the window's should-close flag
  viewport,      \* the GL viewport <<x, y, w, h>>
  fbSize,        \* framebuffer size last reported to the program
  frames,        \* frame-loop iterations started
  events,        \* events dispatched so far
  lastEvent,     \* the event dispatched last by the glfwPollEvents in progress
  exitStatus,    \* Running, or the exit status of the process
  initFailure,   \* the initialization step that failed ("none" so far)
  closeDispatched, \* TRUE once an ESC press or a close request was dispatched
  ctlAllOpen     \* <<pc, calls>> this step yields when the log open succeeds

vars == <<pc, logFile, logOpen, cerr, logCount, logArgs, logRet, createLogRet,
          calls, i, maxExtensions, shouldClose, viewport, fbSize, frames,
          events, lastEvent, exitStatus, initFailure, closeDispatched,
          ctlAllOpen>>

logVars == <<logFile, logOpen, cerr, logCount, logArgs, logRet>>
queryVars == <<i, maxExtensions>>
winVars == <<shouldClose, viewport, fbSize, frames, events, lastEvent,
             closeDispatched>>

Call(f, a) == <<f, a>>

(* The environment acts on the run through failed opens of the log file    *)
(* (each writes one line to std::cerr) and through dispatched events.      *)
Incidents == cerr + events

(* Outcomes of opening the log file: it may fail.                          *)
OpenOutcomes == IF Incidents < MaxIncidents THEN BOOLEAN ELSE {TRUE}

(* ------------------------- log_to_debug_file --------------------------- *)
(* Each argument is streamed followed by ' ', then std::endl; the stream   *)
(* is closed (or was never opened) when the call returns: open |-> FALSE.  *)
(* err is the number of lines written to std::cerr.                        *)
Serialize(args) == Concat([k \in 1..Len(args) |-> args[k] \o <<SP>>])

log_to_debug_file_truncating(content, args, opened) ==
  IF ~opened THEN [content |-> content, ret |-> FALSE, err |-> 1, open |-> FALSE]
  ELSE [content |-> Serialize(args) \o <<NL>>, ret |-> TRUE, err |-> 0,
        open |-> FALSE]

log_to_debug_file_always_true(content, args, opened) ==
  IF ~opened THEN [content |-> content, ret |-> TRUE, err |-> 1, open |-> FALSE]
  ELSE [content |-> content \o Serialize(args) \o <<NL>>, ret |-> TRUE, err |-> 0,
        open |-> FALSE]

log_to_debug_file(content, args, opened) ==
  IF ~opened THEN [content |-> content, ret |-> FALSE, err |-> 1, open |-> FALSE]
  ELSE [content |-> content \o Serialize(args) \o <<NL>>, ret |-> TRUE, err |-> 0,
        open |-> FALSE]

(* --------------------------- create_log_file --------------------------- *)
(* std::ctime's result ends with a newline.                                *)
Header ==
  <<"OpenGL Application Log File local time: ", "<ctime>", NL,
    "Build version: ", "<__DATE__>", SP, "<__TIME__>", NL, NL>>

create_log_file_appending(content, opened) ==
  IF ~opened THEN [content |-> content, ret |-> FALSE, err |-> 1, open |-> FALSE]
  ELSE [content |-> content \o Header, ret |-> TRUE, err |-> 0,
        open |-> FALSE]

create_log_file(content, opened) ==
  IF ~opened THEN [content |-> content, ret |-> FALSE, err |-> 1, open |-> FALSE]
  ELSE [content |-> Header, ret |-> TRUE, err |-> 0,
        open |-> FALSE]

(* A call whose value the caller does not use: control goes on to next     *)
(* whatever was returned.                                                  *)
Ignored_exit_on_failure(ret, next) == IF ret THEN next ELSE "exited"

Ignored(ret, next) == next

(* The step made by a statement log_to_debug_file(g_logfilename, args...); *)
(* that follows the calls newcalls and is followed by position next.       *)
LogStep(args, newcalls, next) ==
  \E opened \in OpenOutcomes :
    LET r == log_to_debug_file(logFile, args, opened) IN
    /\ logFile' = r.content
    /\ logRet' = r.ret
    /\ cerr' = cerr + r.err
    /\ logArgs' = args
    /\ logCount' = logCount + 1
    /\ logOpen' = r.open
    /\ calls' = calls \o newcalls
    /\ pc' = Ignored(r.ret, next)
    /\ ctlAllOpen' = <<Ignored(TRUE, next), calls \o newcalls>>

(* A step that makes the calls newcalls and writes nothing to the log.     *)
Goto(newcalls, next) ==
  /\ calls' = calls \o newcalls
  /\ pc' = next
  /\ ctlAllOpen' = <<next, calls \o newcalls>>
  /\ UNCHANGED logVars

(* Contents the log file may hold before the program starts.               *)
OldContents == { <<>>, <<"old", NL>>, <<"old", NL, "older", SP, NL>> }

Init ==
  /\ pc = "create_log_file"
  /\ logFile \in OldContents
  /\ logOpen = FALSE
  /\ cerr = 0
  /\ logCount = 0
  /\ logArgs = <<>>
  /\ logRet = FALSE
  /\ createLogRet = FALSE
  /\ calls = <<>>
  /\ i = 0
  /\ maxExtensions = 0
  /\ shouldClose = FALSE
  /\ viewport = <<0, 0, 0, 0>>
  /\ fbSize = <<0, 0>>
  /\ frames = 0
  /\ events = 0
  /\ lastEvent = <<"none">>
  /\ exitStatus = Running
  /\ initFailure = "none"
  /\ closeDispatched = FALSE
  /\ ctlAllOpen = <<"create_log_file", <<>>>>

(* main, line 129: create_log_file(); the result is not used.              *)
CreateLogFile ==
  /\ pc = "create_log_file"
  /\ \E opened \in OpenOutcomes :
       LET r == create_log_file(logFile, opened) IN
       /\ logFile' = r.content
       /\ createLogRet' = r.ret
       /\ cerr' = cerr + r.err
       /\ logOpen' = r.open
       /\ pc' = Ignored(r.ret, "glfwInit")
       /\ ctlAllOpen' = <<Ignored(TRUE, "glfwInit"), calls>>
  /\ UNCHANGED <<logCount, logArgs, logRet, calls, queryVars, winVars, exitStatus,
                 initFailure>>

(* ------------------------- create_gl_context --------------------------- *)
WindowHints ==
  << Call("glfwWindowHint", "GLFW_CONTEXT_VERSION_MAJOR"),
     Call("glfwWindowHint", "GLFW_CONTEXT_VERSION_MINOR"),
     Call("glfwWindowHint", "GLFW_OPENGL_PROFILE"),
     Call("glfwWindowHint", "GLFW_OPENGL_FORWARD_COMPAT"),
     Call("glfwWindowHint", "GLFW_DOUBLEBUFFER"),
     Call("glfwWindowHint", "GLFW_DEPTH_BITS"),
     Call("glfwWindowHint", "GLFW_RED_BITS"),
     Call("glfwWindowHint", "GLFW_GREEN_BITS"),
     Call("glfwWindowHint", "GLFW_BLUE_BITS"),
     Call("glfwWindowHint", "GLFW_ALPHA_BITS") >>

(* The five event callbacks, in the order lines 479-483 install them.      *)
EventCallbacks ==
  << Call("glfwSetFramebufferSizeCallback", "fbsize_cb"),
     Call("glfwSetKeyCallback", "key_cb"),
     Call("glfwSetMouseButtonCallback", "mousebutton_cb"),
     Call("glfwSetCursorPosCallback", "mousepos_cb"),
     Call("glfwSetScrollCallback", "mousescroll_cb") >>

(* lines 437-444: glfwInit and the log line of either branch.              *)
GlfwInit ==
  /\ pc = "glfwInit"
  /\ \E ok \in BOOLEAN :
       IF ok
       THEN /\ LogStep(<< <<"GLFW Version: ">>, <<"<glfwGetVersionString>">> >>,
                       << Call("glfwInit", "GLFW_TRUE"),
                          Call("glfwGetVersionString", "") >>,
                       "glfwSetErrorCallback")
            /\ UNCHANGED <<exitStatus, initFailure>>
       ELSE /\ LogStep(<< <<"ERROR: Initialization of GLFW has failed - program aborted">> >>,
                       << Call("glfwInit", "GLFW_FALSE") >>,
                       "exited")
            /\ exitStatus' = EXIT_FAILURE
            /\ initFailure' = "glfwInit"
  /\ UNCHANGED <<createLogRet, queryVars, winVars>>

(* lines 446-463: the error callback and the window hints.                 *)
SetHints ==
  /\ pc = "glfwSetErrorCallback"
  /\ Goto(<< Call("glfwSetErrorCallback", "glfw_error_cb") >> \o WindowHints,
          "glfwCreateWindow")
  /\ UNCHANGED <<createLogRet, queryVars, winVars, exitStatus, initFailure>>

(* line 466: glfwCreateWindow; on failure GLFW reports the error through   *)
(* the error callback before it returns NULL.                              *)
GlfwCreateWindow ==
  /\ pc = "glfwCreateWindow"
  /\ \E ok \in BOOLEAN :
       IF ok
       THEN /\ Goto(<< Call("glfwCreateWindow", "pwin") >>, "glfwMakeContextCurrent")
            /\ UNCHANGED initFailure
       ELSE /\ Goto(<< Call("glfwCreateWindow", "NULL") >>, "glfw_error_cb@create")
            /\ initFailure' = "glfwCreateWindow"
  /\ UNCHANGED <<createLogRet, queryVars, winVars, exitStatus>>

(* lines 239-245: glfw_error_cb, run by GLFW inside glfwCreateWindow or    *)
(* inside glfwPollEvents.                                                  *)
glfw_error_cb ==
  /\ pc \in {"glfw_error_cb@create", "glfw_error_cb@poll"}
  /\ LogStep(<< <<"GLFW Error id: ">>, <<"<error>">>, <<" | description: ">>,
                <<"<description>">> >>,
             <<>>,
             IF pc = "glfw_error_cb@create" THEN "create_window_failed" ELSE "poll")
  /\ UNCHANGED <<createLogRet, queryVars, winVars, exitStatus, initFailure>>

(* lines 467-472: no window.                                               *)
CreateWindowFailed ==
  /\ pc = "create_window_failed"
  /\ LogStep(<< <<"ERROR: GLFW is unable to create an OpenGL context.", NL>> >>,
             << Call("glfwTerminate", "") >>, "exited")
  /\ exitStatus' = EXIT_FAILURE
  /\ UNCHANGED <<createLogRet, queryVars, winVars, initFailure>>

(* lines 475-488: the context is made current, the event callbacks are    *)
(* installed, and the window is returned to main.                          *)
InstallCallbacks ==
  /\ pc = "glfwMakeContextCurrent"
  /\ Goto(<< Call("glfwMakeContextCurrent", "pwin") >> \o EventCallbacks
            \o << Call("glfwSetInputMode", "GLFW_CURSOR") >>,
          "init_gl_loader")
  /\ UNCHANGED <<createLogRet, queryVars, winVars, exitStatus, initFailure>>

(* --------------------------- init_gl_loader ---------------------------- *)
(* The value init_gl_loader returns, from glewInit's result and            *)
(* GLEW_VERSION_4_5.                                                       *)
init_gl_loader_ret_true(glewOk, gl45) == TRUE

init_gl_loader_ret(glewOk, gl45) == glewOk /\ gl45

main_after_loader_unchecked(ret) == "query_gl_context"

(* main, lines 132-136: the position that follows init_gl_loader.          *)
main_after_loader(ret) == IF ret THEN "query_gl_context" ELSE "loader_failed"

(* lines 508-522, up to the first log line of each branch.                 *)
InitGlLoader ==
  /\ pc = "init_gl_loader"
  /\ \E glewOk \in BOOLEAN, gl45 \in BOOLEAN :
       CASE ~glewOk ->
              /\ initFailure' = "glewInit"
              /\ LogStep(<< <<"ERROR: Unable to initialize GLEW ">>,
                         <<"<glewGetErrorString>">> >>,
                      << Call("glewInit", "error"), Call("glewGetErrorString", "") >>,
                      main_after_loader(init_gl_loader_ret(glewOk, gl45)))
         [] glewOk /\ gl45 ->
              /\ UNCHANGED initFailure
              /\ LogStep(<< <<"GLEW Version: ">>, <<"<glewGetString>">> >>,
                      << Call("glewInit", "GLEW_OK"),
                         Call("glewGetString", "GLEW_VERSION") >>,
                      "log_driver_supports")
         [] glewOk /\ ~gl45 ->
              /\ initFailure' = "GLEW_VERSION_4_5"
              /\ LogStep(<< <<"ERROR: System doesn't support GL 4.5 API", NL>> >>,
                      << Call("glewInit", "GLEW_OK") >>,
                      main_after_loader(init_gl_loader_ret(glewOk, gl45)))
  /\ UNCHANGED <<createLogRet, queryVars, winVars, exitStatus>>

(* line 517-518: second log line of the success branch, return GL_TRUE.    *)
LogDriverSupports ==
  /\ pc = "log_driver_supports"
  /\ LogStep(<< <<"Graphics driver supports OpenGL version 4.5", NL>> >>,
             <<>>, main_after_loader(init_gl_loader_ret(TRUE, TRUE)))
  /\ UNCHANGED <<createLogRet, queryVars, winVars, exitStatus, initFailure>>

(* main, lines 133-135.                                                    *)
LoaderFailed ==
  /\ pc = "loader_failed"
  /\ Goto(<< Call("glfwDestroyWindow", "pwin"), Call("glfwTerminate", "") >>,
          "exited")
  /\ exitStatus' = EXIT_FAILURE
  /\ UNCHANGED <<createLogRet, queryVars, winVars, initFailure>>

(* -------------------------- query_gl_context --------------------------- *)
(* lines 539-562: the (capability, label) table; position k of the code is *)
(* params[k + 1] here.                                                     *)
params ==
  << <<"GL_VENDOR", "GL_VENDOR">>,
     <<"GL_RENDERER", "GL_RENDERER">>,
     <<"GL_VERSION", "GL_VERSION">>,
     <<"GL_SHADING_LANGUAGE_VERSION", "GL_SHADING_LANGUAGE_VERSION">>,
     <<"GL_MAJOR_VERSION", "GL_MAJOR_VERSION">>,
     <<"GL_MINOR_VERSION", "GL_MINOR_VERSION">>,
     <<"GL_MAX_ELEMENTS_VERTICES", "GL_MAX_ELEMENTS_VERTICES">>,
     <<"GL_MAX_ELEMENTS_INDICES", "GL_MAX_ELEMENTS_INDICES">>,
     <<"GL_MAX_GEOMETRY_OUTPUT_VERTICES", "GL_MAX_GEOMETRY_OUTPUT_VERTICES">>,
     <<"GL_MAX_COMBINED_TEXTURE_IMAGE_UNITS", "GL_MAX_COMBINED_TEXTURE_IMAGE_UNITS">>,
     <<"GL_MAX_CUBE_MAP_TEXTURE_SIZE", "GL_MAX_CUBE_MAP_TEXTURE_SIZE">>,
     <<"GL_MAX_DRAW_BUFFERS", "GL_MAX_DRAW_BUFFERS">>,
     <<"GL_MAX_FRAGMENT_UNIFORM_COMPONENTS", "GL_MAX_FRAGMENT_UNIFORM_COMPONENTS">>,
     <<"GL_MAX_TEXTURE_IMAGE_UNITS", "GL_MAX_TEXTURE_IMAGE_UNITS">>,
     <<"GL_MAX_TEXTURE_SIZE", "GL_MAX_TEXTURE_SIZE">>,
     <<"GL_MAX_VARYING_FLOATS", "GL_MAX_VARYING_FLOATS">>,
     <<"GL_MAX_VERTEX_ATTRIBS", "GL_MAX_VERTEX_ATTRIBS">>,
     <<"GL_MAX_VERTEX_TEXTURE_IMAGE_UNITS", "GL_MAX_VERTEX_TEXTURE_IMAGE_UNITS">>,
     <<"GL_MAX_VERTEX_UNIFORM_COMPONENTS", "GL_MAX_VERTEX_UNIFORM_COMPONENTS">>,
     <<"GL_MAX_VIEWPORT_DIMS", "GL_MAX_VIEWPORT_DIMS">>,
     <<"GL_STEREO", "GL_STEREO">> >>

First(k) == params[k + 1][1]     \* params[k].first
Second(k) == params[k + 1][2]    \* params[k].second

(* Loop bounds and fixed positions of query_gl_context.                    *)
StringsEnd == 4
IntsEnd_short == 19 - 1
IntsEnd == 19
DimsPos == 19
StereoPos == 20

(* lines 565-566 *)
QueryHeader ==
  /\ pc = "query_gl_context"
  /\ LogStep(<< <<"GL version information and context parameters:">> >>,
             <<>>, "query_strings")
  /\ i' = 0
  /\ UNCHANGED <<createLogRet, maxExtensions, winVars, exitStatus, initFailure>>

(* lines 567-569: for (i = 0; i < 4; ++i) *)
QueryStrings ==
  /\ pc = "query_strings"
  /\ i < StringsEnd
  /\ LogStep(<< <<Second(i)>>, <<"<glGetString>">> >>,
             << Call("glGetString", First(i)) >>,
             IF i + 1 < StringsEnd THEN "query_strings" ELSE "query_ints")
  /\ i' = i + 1
  /\ UNCHANGED <<createLogRet, maxExtensions, winVars, exitStatus, initFailure>>

(* lines 572-576: for (; i < 19; ++i) *)
QueryInts ==
  /\ pc = "query_ints"
  /\ i < IntsEnd
  /\ LogStep(<< <<Second(i)>>, <<"<val>">> >>,
             << Call("glGetIntegerv", First(i)) >>,
             IF i + 1 < IntsEnd THEN "query_ints" ELSE "query_dims")
  /\ i' = i + 1
  /\ UNCHANGED <<createLogRet, maxExtensions, winVars, exitStatus, initFailure>>

(* lines 579-581; i stays at its value after the loop *)
QueryDims ==
  /\ pc = "query_dims"
  /\ LogStep(<< <<Second(DimsPos)>>, <<"<dim[0]>">>, <<"<dim[1]>">> >>,
             << Call("glGetIntegerv", First(DimsPos)) >>,
             "query_stereo")
  /\ UNCHANGED <<createLogRet, queryVars, winVars, exitStatus, initFailure>>

(* lines 584-586 *)
QueryStereo ==
  /\ pc = "query_stereo"
  /\ LogStep(<< <<Second(StereoPos)>>, <<"<flag>">> >>,
             << Call("glGetBooleanv", First(StereoPos)) >>,
             "query_separator")
  /\ UNCHANGED <<createLogRet, queryVars, winVars, exitStatus, initFailure>>

(* lines 588-593: the separator line, GL_NUM_EXTENSIONS, GLint i = 0 *)
QuerySeparator ==
  /\ pc = "query_separator"
  /\ \E n \in 0..MaxExt :
       /\ LogStep(<< <<"-----------------------------">> >>,
                  << Call("glGetIntegerv", "GL_NUM_EXTENSIONS") >>,
                  IF 0 < n THEN "query_extensions" ELSE "init_gl_state")
       /\ maxExtensions' = n
  /\ i' = 0
  /\ UNCHANGED <<createLogRet, winVars, exitStatus, initFailure>>

(* lines 593-595: for (GLint i = 0; i < maxExtensions; ++i) *)
QueryExtensions ==
  /\ pc = "query_extensions"
  /\ i < maxExtensions
  /\ LogStep(<< <<ToString(i + 1)>>, <<": ">>, <<"<glGetStringi>">> >>,
             << Call("glGetStringi", ToString(i)) >>,
             IF i + 1 < maxExtensions THEN "query_extensions" ELSE "init_gl_state")
  /\ i' = i + 1
  /\ UNCHANGED <<createLogRet, maxExtensions, winVars, exitStatus, initFailure>>

(* ---------------------------- init_gl_state ---------------------------- *)
(* Framebuffer sizes the windowing library may report.                     *)
FbSizes == { <<2400, 1350>>, <<800, 600>> }

(* lines 264-268: fbsize_cb sets the viewport to the whole framebuffer.    *)
fbsize_cb_swapped(width, height) == <<0, 0, height, width>>

fbsize_cb(width, height) == <<0, 0, width, height>>

(* lines 197-207 *)
InitGlState ==
  /\ pc = "init_gl_state"
  /\ \E sz \in FbSizes :
       /\ Goto(<< Call("glClearColor", "0,1,0,1"),
                  Call("glfwGetFramebufferSize", ToString(sz)),
                  Call("glViewport", ToString(fbsize_cb(sz[1], sz[2]))) >>,
               "loop_test")
       /\ fbSize' = sz
       /\ viewport' = fbsize_cb(sz[1], sz[2])
  /\ UNCHANGED <<createLogRet, queryVars, shouldClose, frames, events, lastEvent,
                 closeDispatched, exitStatus, initFailure>>

(* ----------------------------- frame loop ------------------------------ *)
(* main, line 141: while (!glfwWindowShouldClose(pWindow)) *)
LoopTest ==
  /\ pc = "loop_test"
  /\ shouldClose \/ frames < MaxFrames
  /\ Goto(<< Call("glfwWindowShouldClose", ToString(shouldClose)) >>,
          IF shouldClose THEN "cleanup" ELSE "draw")
  /\ frames' = IF shouldClose THEN frames ELSE frames + 1
  /\ UNCHANGED <<createLogRet, queryVars, shouldClose, viewport, fbSize, events,
                 lastEvent, closeDispatched, exitStatus, initFailure>>

(* lines 158-166: the calls of draw, in order *)
draw_swap_first == << Call("glfwSwapBuffers", "pwin"), Call("glClear", "GL_COLOR_BUFFER_BIT") >>

draw == << Call("glClear", "GL_COLOR_BUFFER_BIT"), Call("glfwSwapBuffers", "pwin") >>

Draw ==
  /\ pc = "draw"
  /\ Goto(draw, "update")
  /\ UNCHANGED <<createLogRet, queryVars, winVars, exitStatus, initFailure>>

(* lines 181-183: update enters glfwPollEvents *)
Update ==
  /\ pc = "update"
  /\ Goto(<< Call("glfwPollEvents", "") >>, "poll")
  /\ UNCHANGED <<createLogRet, queryVars, winVars, exitStatus, initFailure>>

(* ----------------------- callbacks run by GLFW ------------------------- *)
Keys == {"GLFW_KEY_ESCAPE", "GLFW_KEY_A"}
KeyActions == {"GLFW_PRESS", "GLFW_REPEAT", "GLFW_RELEASE"}
Buttons == {"GLFW_MOUSE_BUTTON_LEFT", "GLFW_MOUSE_BUTTON_RIGHT"}
ButtonActions == {"GLFW_PRESS", "GLFW_RELEASE"}

(* The events that ask the program to end: an ESC key press, and a click   *)
(* on the close widget or Alt+F4 (lines 17-18).                            *)
CloseEvents == { <<"key", "GLFW_KEY_ESCAPE", "GLFW_PRESS">>, <<"close">> }

(* lines 296-314: TRUE when key_cb calls glfwSetWindowShouldClose.         *)
key_cb_any_action(key, action) == "GLFW_KEY_ESCAPE" = key

key_cb(key, action) == "GLFW_KEY_ESCAPE" = key /\ "GLFW_PRESS" = action

(* glfwPollEvents dispatches the event ev.                                 *)
Dispatched(ev) ==
  /\ pc = "poll"
  /\ Incidents < MaxIncidents
  /\ events' = events + 1
  /\ lastEvent' = ev
  /\ closeDispatched' = (closeDispatched \/ ev \in CloseEvents)
  /\ UNCHANGED <<createLogRet, queryVars, frames, exitStatus, initFailure>>

KeyEvent ==
  \E key \in Keys, action \in KeyActions :
    /\ Dispatched(<<"key", key, action>>)
    /\ IF key_cb(key, action)
       THEN /\ Goto(<< Call("glfwSetWindowShouldClose", "GLFW_TRUE") >>, "poll")
            /\ shouldClose' = TRUE
       ELSE /\ Goto(<<>>, "poll")
            /\ UNCHANGED shouldClose
    /\ UNCHANGED <<viewport, fbSize>>

(* lines 338-363: mousebutton_cb changes nothing *)
MouseButtonEvent ==
  \E button \in Buttons, action \in ButtonActions :
    /\ Dispatched(<<"mousebutton", button, action>>)
    /\ Goto(<<>>, "poll")
    /\ UNCHANGED <<shouldClose, viewport, fbSize>>

(* lines 382-386: mousepos_cb changes nothing *)
MousePosEvent ==
  /\ Dispatched(<<"mousepos">>)
  /\ Goto(<<>>, "poll")
  /\ UNCHANGED <<shouldClose, viewport, fbSize>>

(* lines 406-411: mousescroll_cb changes nothing *)
MouseScrollEvent ==
  /\ Dispatched(<<"mousescroll">>)
  /\ Goto(<<>>, "poll")
  /\ UNCHANGED <<shouldClose, viewport, fbSize>>

(* lines 264-268: fbsize_cb, run for a framebuffer-size event *)
FbSizeEvent ==
  \E sz \in FbSizes :
    /\ Dispatched(<<"fbsize", ToString(sz)>>)
    /\ Goto(<< Call("glViewport", ToString(fbsize_cb(sz[1], sz[2]))) >>, "poll")
    /\ fbSize' = sz
    /\ viewport' = fbsize_cb(sz[1], sz[2])
    /\ UNCHANGED shouldClose

(* Close widget or Alt+F4: no close callback is installed, the windowing   *)
(* library sets the flag itself (line 140).                                *)
CloseRequest ==
  /\ Dispatched(<<"close">>)
  /\ Goto(<<>>, "poll")
  /\ shouldClose' = TRUE
  /\ UNCHANGED <<viewport, fbSize>>

(* A GLFW error raised while polling: glfw_error_cb runs next.             *)
ErrorEvent ==
  /\ Dispatched(<<"error">>)
  /\ Goto(<<>>, "glfw_error_cb@poll")
  /\ UNCHANGED <<shouldClose, viewport, fbSize>>

(* glfwPollEvents returns: back to the loop test *)
PollReturn ==
  /\ pc = "poll"
  /\ Goto(<<>>, "loop_test")
  /\ lastEvent' = <<"none">>
  /\ UNCHANGED <<createLogRet, queryVars, shouldClose, viewport, fbSize, frames,
                 events, closeDispatched, exitStatus, initFailure>>

(* lines 221-223 and 145-146: cleanup, then main returns 0 *)
cleanup_twice == << Call("glfwTerminate", ""), Call("glfwTerminate", "") >>

cleanup == << Call("glfwTerminate", "") >>

Cleanup ==
  /\ pc = "cleanup"
  /\ Goto(cleanup, "exited")
  /\ exitStatus' = EXIT_SUCCESS
  /\ UNCHANGED <<createLogRet, queryVars, winVars, initFailure>>

Next ==
  \/ CreateLogFile
  \/ GlfwInit
  \/ SetHints
  \/ GlfwCreateWindow
  \/ glfw_error_cb
  \/ CreateWindowFailed
  \/ InstallCallbacks
  \/ InitGlLoader
  \/ LogDriverSupports
  \/ LoaderFailed
  \/ QueryHeader
  \/ QueryStrings
  \/ QueryInts
  \/ QueryDims
  \/ QueryStereo
  \/ QuerySeparator
  \/ QueryExtensions
  \/ InitGlState
  \/ LoopTest
  \/ Draw
  \/ Update
  \/ KeyEvent
  \/ MouseButtonEvent
  \/ MousePosEvent
  \/ MouseScrollEvent
  \/ FbSizeEvent
  \/ CloseRequest
  \/ ErrorEvent
  \/ PollReturn
  \/ Cleanup

Spec == Init /\ [][Next]_vars

(* ============================== claims ================================= *)
Positions(f) == {k \in 1..Len(calls) : calls[k][1] = f}
CountCalls(f) == Cardinality(Positions(f))
Before(S, T) == \A a \in S, b \in T : a < b

InitDone == pc \in {"loop_test", "draw", "update", "poll", "glfw_error_cb@poll",
                    "cleanup"}
             \/ (pc = "exited" /\ exitStatus = EXIT_SUCCESS)

QueryFunctions == {"glGetString", "glGetIntegerv", "glGetBooleanv", "glGetStringi"}
QueryPositions == UNION {Positions(f) : f \in QueryFunctions}
CallbackPositions == UNION {Positions(c[1]) : c \in {EventCallbacks[k] : k \in 1..5}}

(* C1: when every initialization step has succeeded, the calls were made   *)
(* in the order glfwInit, glfwCreateWindow, glewInit, the capability       *)
(* queries, and only then the five event-callback registrations, each      *)
(* made exactly once.                                                      *)
C1_InitOrder ==
  InitDone =>
    /\ CountCalls("glfwInit") = 1
    /\ CountCalls("glfwCreateWindow") = 1
    /\ CountCalls("glewInit") = 1
    /\ \A c \in {EventCallbacks[k] : k \in 1..5} : CountCalls(c[1]) = 1
    /\ Before(Positions("glfwInit"), Positions("glfwCreateWindow"))
    /\ Before(Positions("glfwCreateWindow"), Positions("glewInit"))
    /\ Before(Positions("glewInit"), QueryPositions)
    /\ Before(QueryPositions, CallbackPositions)

(* ------------------------------- C2 ------------------------------------ *)
LoopFunctions == {"glfwWindowShouldClose", "glClear", "glfwSwapBuffers",
                  "glfwPollEvents"}
IsLoopCall(c) == c[1] \in LoopFunctions
LoopCalls == SelectSeq(calls, IsLoopCall)
Iteration == <<"glfwWindowShouldClose", "glClear", "glfwSwapBuffers",
               "glfwPollEvents">>

(* C2: the calls the frame loop makes are rounds of flag test, glClear,    *)
(* glfwSwapBuffers, glfwPollEvents in that order; a round goes past its    *)
(* test only when the test returned false, and a test that returned true   *)
(* is the last call of the loop (so a flag set at the first test gives no  *)
(* glClear and no glfwSwapBuffers at all).                                 *)
C2_FrameLoopShape ==
  LET L == LoopCalls IN
  /\ \A k \in 1..Len(L) :
       /\ L[k][1] = Iteration[((k - 1) % 4) + 1]
       /\ L[k][1] = "glfwWindowShouldClose" /\ k < Len(L) => L[k][2] = "FALSE"
       /\ L[k] = Call("glfwWindowShouldClose", "TRUE") => k = Len(L)
  /\ CountCalls("glClear") = frames \/ pc = "draw"
  /\ pc = "draw" => CountCalls("glClear") + 1 = frames

C2_Witness ==
  /\ pc = "exited"
  /\ exitStatus = EXIT_SUCCESS
  /\ frames = 2
  /\ Len(LoopCalls) = 9

(* ------------------------------- C3 ------------------------------------ *)
(* C3: after initialization the loop is left only when a close event (ESC  *)
(* press, close widget or Alt+F4) has been dispatched, and never goes on   *)
(* when one has: without such an event the flag test leads to the next     *)
(* iteration; once one is dispatched no new iteration starts, the next     *)
(* flag test leads to cleanup, glfwTerminate is called exactly once and    *)
(* main returns 0.                                                         *)
C3_LoopExit ==
  /\ [][pc = "loop_test" /\ ~closeDispatched => pc' = "draw"]_vars
  /\ [][pc = "loop_test" /\ closeDispatched => pc' = "cleanup"]_vars
  /\ [][pc = "cleanup" =>
          /\ pc' = "exited"
          /\ exitStatus' = 0
          /\ Cardinality({k \in 1..Len(calls') : calls'[k][1] = "glfwTerminate"}) = 1]_vars
  /\ [](closeDispatched => pc \in {"poll", "glfw_error_cb@poll", "loop_test",
                                   "cleanup", "exited"})
  /\ [](InitDone /\ pc \in {"cleanup", "exited"} => closeDispatched)

C3_Witness ==
  /\ pc = "exited"
  /\ exitStatus = 0
  /\ closeDispatched
  /\ CountCalls("glfwTerminate") = 1
  /\ frames = 1

(* ------------------------------- C4 ------------------------------------ *)
RECURSIVE EachThenSpace(_)
EachThenSpace(args) ==
  IF args = <<>> THEN <<>>
  ELSE Head(args) \o <<SP>> \o EachThenSpace(Tail(args))

EndsWith(t, s) == Len(s) <= Len(t) /\ SubSeq(t, Len(t) - Len(s) + 1, Len(t)) = s

ErrorTexts ==
  { "ERROR: Initialization of GLFW has failed - program aborted",
    "ERROR: GLFW is unable to create an OpenGL context.",
    "ERROR: Unable to initialize GLEW ",
    "ERROR: System doesn't support GL 4.5 API" }

FailurePath == {"glfw_error_cb@create", "create_window_failed", "loader_failed",
                "exited"}
ErrorLogged == pc \in {"loader_failed", "exited"}

StateSetup == {"glClearColor", "glfwGetFramebufferSize", "glViewport"}
LaterSteps ==
  QueryFunctions \cup StateSetup \cup LoopFunctions
    \cup (IF initFailure = "glfwInit"
          THEN {"glfwCreateWindow", "glfwMakeContextCurrent", "glewInit"}
          ELSE IF initFailure = "glfwCreateWindow"
          THEN {"glfwMakeContextCurrent", "glewInit"}
          ELSE {})

AbortsAtOnce ==
  /\ pc \in FailurePath
  /\ pc = "exited" => exitStatus = EXIT_FAILURE /\ exitStatus # 0
  /\ \A f \in LaterSteps : CountCalls(f) = 0
  /\ ErrorLogged => logCount > 0 /\ logArgs[1][1] \in ErrorTexts

(* C4 as stated: after a failed initialization step an error line has been *)
(* appended to the log, the process ends with EXIT_FAILURE and no later    *)
(* step is executed.                                                       *)
C4_Original ==
  initFailure # "none" =>
    /\ AbortsAtOnce
    /\ ErrorLogged =>
         logRet /\ EndsWith(logFile, EachThenSpace(logArgs) \o <<NL>>)

(* C4: after a failed initialization step log_to_debug_file has been       *)
(* called with the error message, which is the end of the log when the log *)
(* file could be opened (otherwise the error went to standard error and    *)
(* the log is as it was); the process ends with EXIT_FAILURE and no later  *)
(* initialization step, query, init_gl_state or frame is executed.         *)
C4_FailureAborts ==
  initFailure # "none" =>
    /\ AbortsAtOnce
    /\ ErrorLogged /\ logRet =>
         EndsWith(logFile, EachThenSpace(logArgs) \o <<NL>>)
    /\ ErrorLogged /\ ~logRet =>
         cerr > 0 /\ ~EndsWith(logFile, EachThenSpace(logArgs) \o <<NL>>)

C4_Witness ==
  /\ pc = "exited"
  /\ initFailure = "glfwCreateWindow"
  /\ logRet
  /\ exitStatus = EXIT_FAILURE
  /\ CountCalls("glfwTerminate") = 1

(* ------------------------------- C5 ------------------------------------ *)
(* C5: a failed open of the log file writes one error line to standard     *)
(* error and makes the call return its failure value, and the program's    *)
(* position and the sequence of windowing/GL calls after every step are    *)
(* those the step gives when the open succeeds.                            *)
C5_LogFailureIgnored ==
  /\ [](ctlAllOpen = <<pc, calls>>)
  /\ [][cerr' # cerr =>
          /\ cerr' = cerr + 1
          /\ logFile' = logFile
          /\ \/ pc = "create_log_file" /\ ~createLogRet'
             \/ logCount' = logCount + 1 /\ ~logRet']_vars
  /\ [][pc = "create_log_file" /\ ~createLogRet' => cerr' = cerr + 1]_vars
  /\ [][logCount' # logCount /\ ~logRet' => cerr' = cerr + 1]_vars

C5_Witness ==
  /\ cerr = 1
  /\ ~createLogRet
  /\ pc = "exited"
  /\ exitStatus = EXIT_SUCCESS
  /\ frames = 2

(* ------------------------------- C6 ------------------------------------ *)
RECURSIVE JoinWithSpace(_)
JoinWithSpace(args) ==
  IF Len(args) = 1 THEN Head(args)
  ELSE Head(args) \o <<SP>> \o JoinWithSpace(Tail(args))

LogCalled == logCount' # logCount
Opened == cerr' = cerr

(* C6 as stated: true iff the file opened; on false the file is unchanged; *)
(* on true exactly one line is appended, the arguments separated by a      *)
(* space and ended by a newline.                                           *)
C6_Original ==
  [][LogCalled =>
       /\ logRet' <=> Opened
       /\ ~logRet' => logFile' = logFile
       /\ logRet' =>
            /\ logFile' = logFile \o JoinWithSpace(logArgs') \o <<NL>>
            /\ CountNL(logFile') = CountNL(logFile) + 1]_vars

(* C6: log_to_debug_file returns true iff the file opened; on false the    *)
(* file is unchanged; on true the text appended is every argument in       *)
(* argument order, each followed by one space, then a newline: one line    *)
(* more than the newlines the arguments hold.                              *)
C6_LogLine ==
  [][LogCalled =>
       /\ logCount' = logCount + 1
       /\ logRet' <=> Opened
       /\ ~logRet' => logFile' = logFile
       /\ logRet' =>
            /\ logFile' = logFile \o EachThenSpace(logArgs') \o <<NL>>
            /\ CountNL(logFile') =
                 CountNL(logFile) + 1 + CountNL(Concat(logArgs'))]_vars

C6_Witness ==
  /\ logCount > 0
  /\ logRet
  /\ CountNL(Concat(logArgs)) = 1
  /\ Len(logArgs) = 1
  /\ EndsWith(logFile, <<NL, SP, NL>>)

(* ------------------------------- C7 ------------------------------------ *)
(* C7 as stated: every write to the log, the bootstrap write included,     *)
(* keeps the earlier content as a prefix, and no handle stays open.        *)
C7_Original ==
  /\ [][logFile' # logFile => IsPrefix(logFile, logFile')]_vars
  /\ [](~logOpen)

(* C7: every log_to_debug_file call keeps the earlier content as a prefix  *)
(* of the new content; the only other write is the bootstrap write of      *)
(* create_log_file, which replaces the content by the header; no handle on *)
(* the log is open between calls.                                          *)
C7_AppendOnly ==
  /\ [][LogCalled => IsPrefix(logFile, logFile')]_vars
  /\ [][logFile' # logFile /\ ~LogCalled =>
          pc = "create_log_file" /\ logFile' = Header]_vars
  /\ [](~logOpen)

C7_Witness ==
  /\ logCount > 1
  /\ logRet
  /\ createLogRet
  /\ Len(logFile) > Len(Header) + Len(EachThenSpace(logArgs)) + 1

(* ------------------------------- C8 ------------------------------------ *)
(* C8: create_log_file is the first thing main does; when it succeeds it   *)
(* returns GL_TRUE and leaves the file closed and holding exactly the      *)
(* header (time line, build line, blank line) whatever it held before,     *)
(* and the log begins with that header for the rest of the run.            *)
C8_FreshLog ==
  /\ pc = "create_log_file" =>
       calls = <<>> /\ logCount = 0 /\ cerr = 0 /\ logFile \in OldContents
  /\ pc = "glfwInit" =>
       /\ createLogRet <=> cerr = 0
       /\ createLogRet => logFile = Header
       /\ ~createLogRet => logFile \in OldContents
  /\ createLogRet => IsPrefix(Header, logFile) /\ ~logOpen
  /\ Len(Lines(Header)) = 3 /\ Lines(Header)[3] = <<>>

C8_Witness ==
  /\ pc = "exited"
  /\ createLogRet
  /\ logRet
  /\ Len(logFile) > Len(Header)
  /\ exitStatus = EXIT_SUCCESS

(* ------------------------------- C9 ------------------------------------ *)
Form(k) ==
  IF k <= 3 THEN "glGetString"
  ELSE IF k <= 18 THEN "glGetIntegerv"
  ELSE IF k = 19 THEN "glGetIntegerv"
  ELSE "glGetBooleanv"

Values(k) ==
  IF k <= 3 THEN << <<"<glGetString>">> >>
  ELSE IF k <= 18 THEN << <<"<val>">> >>
  ELSE IF k = 19 THEN << <<"<dim[0]>">>, <<"<dim[1]>">> >>
  ELSE << <<"<flag>">> >>

TableQueries == [k \in 1..21 |-> Call(Form(k - 1), params[k][1])]
ExtensionQueries(n) ==
  << Call("glGetIntegerv", "GL_NUM_EXTENSIONS") >>
    \o [k \in 1..n |-> Call("glGetStringi", ToString(k - 1))]

IsQueryCall(c) == c[1] \in QueryFunctions
QueryCalls == SelectSeq(calls, IsQueryCall)

InTable == pc \in {"query_strings", "query_ints", "query_dims", "query_stereo"}
Entry == IF pc \in {"query_strings", "query_ints"} THEN i
         ELSE IF pc = "query_dims" THEN 19 ELSE 20

QueriesInTableOrder ==
  /\ InTable => QueryCalls = SubSeq(TableQueries, 1, Entry)
  /\ pc = "query_separator" => QueryCalls = TableQueries
  /\ pc = "query_extensions" =>
       i < maxExtensions /\ QueryCalls = TableQueries \o ExtensionQueries(i)
  /\ pc = "init_gl_state" \/ InitDone =>
       QueryCalls = TableQueries \o ExtensionQueries(maxExtensions)

EntryLogged(k) ==
  /\ calls' = calls \o << TableQueries[k + 1] >>
  /\ logCount' = logCount + 1
  /\ logArgs' = << <<params[k + 1][2]>> >> \o Values(k)

SetsFlag == Len(calls') > Len(calls)
            /\ calls'[Len(calls')] = Call("glfwSetWindowShouldClose", "GLFW_TRUE")

(* C10: the program calls glfwSetWindowShouldClose only in key_cb for an   *)
(* ESC key with action PRESS; the flag changes only then or on a close     *)
(* request handled by the windowing library, so every other key event,     *)
(* mouse, framebuffer-size and error callback leaves it as it was; and no  *)
(* step clears the flag once it is set.                                    *)
C10_FlagOnlyByEscPress ==
  /\ [][SetsFlag <=> (events' = events + 1
                      /\ lastEvent' = <<"key", "GLFW_KEY_ESCAPE", "GLFW_PRESS">>)]_vars
  /\ [][shouldClose' # shouldClose =>
          /\ shouldClose'
          /\ events' = events + 1
          /\ lastEvent' \in CloseEvents]_vars
  /\ [][shouldClose => shouldClose']_vars
  /\ [](CountCalls("glfwSetWindowShouldClose") > 0 => shouldClose)

C10_Witness ==
  /\ pc = "poll"
  /\ shouldClose
  /\ events = 2
  /\ lastEvent = <<"key", "GLFW_KEY_ESCAPE", "GLFW_RELEASE">>
  /\ CountCalls("glfwSetWindowShouldClose") = 1

(* ------------------------------- C11 ----------------------------------- *)
WholeFramebuffer == <<0, 0, fbSize[1], fbSize[2]>>
LastPosition(f) == CHOOSE k \in Positions(f) : \A m \in Positions(f) : m <= k

(* C11: from the return of init_gl_state on, and so after every return of  *)
(* glfwPollEvents and at every glClear and glfwSwapBuffers of the frame     *)
(* loop, the viewport is (0, 0, w, h) for the framebuffer size (w, h) most  *)
(* recently reported to the program, by glfwGetFramebufferSize in           *)
(* init_gl_state or by the latest framebuffer-size event; the latest        *)
(* glViewport call is the one that set it, and it precedes every glClear.   *)
C11_ViewportIsFramebuffer ==
  InitDone =>
    /\ viewport = WholeFramebuffer
    /\ fbSize \in FbSizes
    /\ Positions("glViewport") # {}
    /\ calls[LastPosition("glViewport")] = Call("glViewport", ToString(WholeFramebuffer))
    /\ \A k \in Positions("glClear") \cup Positions("glfwSwapBuffers") :
         \E v \in Positions("glViewport") : v < k

C11_Witness ==
  /\ pc = "draw"
  /\ frames = 2
  /\ CountCalls("glViewport") = 2
  /\ CountCalls("glClear") = 1
  /\ Call("glfwGetFramebufferSize", ToString(<<2400, 1350>>)) \in
       {calls[k] : k \in 1..Len(calls)}
  /\ viewport = <<0, 0, 800, 600>>
  /\ fbSize = <<800, 600>>

(* ------------------------------- C12 ----------------------------------- *)
GlCommands == QueryFunctions \cup {"glClearColor", "glViewport", "glClear"}
WindowCalls == {"glfwSwapBuffers", "glfwGetFramebufferSize", "glfwPollEvents",
                "glfwWindowShouldClose", "glfwSetWindowShouldClose"}
GlPositions == UNION {Positions(f) : f \in GlCommands}
WindowPositions == UNION {Positions(f) : f \in WindowCalls}
WindowCreated == {k \in 1..Len(calls) : calls[k] = Call("glfwCreateWindow", "pwin")}
ContextCurrent == Positions("glfwMakeContextCurrent")
LoaderSucceeded == {k \in 1..Len(calls) : calls[k] = Call("glewGetString", "GLEW_VERSION")}
Teardown == Positions("glfwDestroyWindow") \cup Positions("glfwTerminate")
Dispatching == pc \in {"poll", "glfw_error_cb@poll"}

(* C12: every call that uses the window or issues an OpenGL command comes  *)
(* after glfwCreateWindow returned a window and glfwMakeContextCurrent made *)
(* its context current; OpenGL commands come only in runs where            *)
(* init_gl_loader returned GL_TRUE, and after it; none of these calls, and *)
(* no event dispatch, comes after glfwDestroyWindow or glfwTerminate;       *)
(* glfwTerminate is called at most once, as the last call of the run, and   *)
(* has been called whenever the process has ended after a successful        *)
(* glfwInit.                                                                *)
C12_HandleLifecycle ==
  LET gl == GlPositions
      used == gl \cup WindowPositions
      created == WindowCreated
      current == ContextCurrent
      loaded == LoaderSucceeded
      destroyed == Positions("glfwDestroyWindow")
      terminated == Positions("glfwTerminate")
  IN  /\ (used # {} \/ Dispatching \/ destroyed # {}) => created # {} /\ current # {}
      /\ Before(created, current)
      /\ Before(current, used)
      /\ Before(created, destroyed)
      /\ Before(used, destroyed \cup terminated)
      /\ gl # {} => initFailure = "none" /\ loaded # {}
      /\ Before(loaded, gl)
      /\ Dispatching => destroyed \cup terminated = {}
      /\ \A d \in destroyed : d + 1 \in terminated
      /\ Cardinality(terminated) <= 1
      /\ \A t \in terminated : t = Len(calls) /\ pc = "exited"
      /\ (pc = "exited" /\ \E g \in Positions("glfwInit") : calls[g] = Call("glfwInit", "GLFW_TRUE"))
           => Cardinality(terminated) = 1

C12_Witness ==
  /\ pc = "exited"
  /\ exitStatus = EXIT_SUCCESS
  /\ CountCalls("glfwTerminate") = 1
  /\ CountCalls("glViewport") = 2
  /\ CountCalls("glClear") = 2
  /\ CountCalls("glfwPollEvents") = 2
  /\ CountCalls("glGetStringi") = MaxExt

====
